---- MODULE Spec2Model ----
(***************************************************************************)
(* scripts/setup_authentik_homelab.py: the bootstrap script that obtains   *)
(* an API token, reads the shared prerequisites, reconciles one OAuth2     *)
(* provider + application and one recovery flow (four stages, four         *)
(* bindings) per entry of APPS, verifies the discovery documents and       *)
(* stores the token in the key vault.                                      *)
(*                                                                         *)
(* One action per remote call of the script (REST request, kubectl, az).   *)
(* Everything the script does between two remote calls (branching on the   *)
(* response, returning from a function, advancing a loop) belongs to the   *)
(* action of the call that precedes it.  The identity provider is a plain  *)
(* store: a successful create adds an object, whatever is already there.   *)
(* The script is run MaxRuns times in sequence against the same store      *)
(* (Spec), or twice at the same time (SpecRace).                           *)
(***************************************************************************)
EXTENDS Integers, Sequences, FiniteSets, TLC

\* ---------------------------------------------------------------- bounds
\* How many times the script is run, one run after the other.
MaxRuns == 3
\* How many remote calls, over all runs, may end other than successfully.
MaxFailures == 1
\* How many times one of two runs at the same time is overtaken by the other
\* before it has ended.
MaxOvertakes == 1

\* ------------------------------------------------------- program constants
\* len(token) < 10 is fatal.
MinTokenLen == 10

\* (ident_pk, 0), (email_pk, 10), (pw_pk, 20), (write_pk, 30)
stage_order == <<0, 10, 20, 30>>

\* Python's None (and every falsy identifier).
None == << >>

\* The two targets with the preview listed first.
APPS_preview_first ==
  << [ name               |-> <<"Bike Weather", " Preview">>,
       slug               |-> <<"bike-weather", "-preview">>,
       client_id          |-> <<"bike-weather", "-preview">>,
       keyvault_token_key |-> "bike-weather-preview-authentik-api-token",
       recovery_flow_slug |-> <<"bike-weather", "-preview", "-recovery">>,
       email_template     |-> "email/password_reset_preview.html" ],
     [ name               |-> <<"Bike Weather">>,
       slug               |-> <<"bike-weather">>,
       client_id          |-> <<"bike-weather">>,
       keyvault_token_key |-> "bike-weather-authentik-api-token",
       recovery_flow_slug |-> <<"bike-weather", "-recovery">>,
       email_template     |-> "email/password_reset_production.html" ] >>

\* Strings that are searched by substring are sequences of pieces.
APPS ==
  << [ name               |-> <<"Bike Weather">>,
       slug               |-> <<"bike-weather">>,
       client_id          |-> <<"bike-weather">>,
       keyvault_token_key |-> "bike-weather-authentik-api-token",
       recovery_flow_slug |-> <<"bike-weather", "-recovery">>,
       email_template     |-> "email/password_reset_production.html" ],
     [ name               |-> <<"Bike Weather", " Preview">>,
       slug               |-> <<"bike-weather", "-preview">>,
       client_id          |-> <<"bike-weather", "-preview">>,
       keyvault_token_key |-> "bike-weather-preview-authentik-api-token",
       recovery_flow_slug |-> <<"bike-weather", "-preview", "-recovery">>,
       email_template     |-> "email/password_reset_preview.html" ] >>

AppIx == 1..Len(APPS)

AUTH_FLOW_SLUG == <<"default-provider-authorization-implicit-consent">>
INVALIDATION_FLOW_SLUG == <<"default-provider-invalidation-flow">>
SCOPE_NAMES == {"openid", "profile", "email"}
EMAIL_SUBJECT == "Fahrrad Wetter - Password Reset"

\* f"{flow_slug}-identification", f"{flow_slug}-email", ...
ident_name(i) == APPS[i].recovery_flow_slug \o <<"-identification">>
email_name(i) == APPS[i].recovery_flow_slug \o <<"-email">>
pw_name(i)    == APPS[i].recovery_flow_slug \o <<"-password">>
write_name(i) == APPS[i].recovery_flow_slug \o <<"-user-write">>

\* ------------------------------------------------------------ HTTP wrapper
\* What one request can end in.
Outcomes == {"ok", "empty", "http_json", "http_text", "url_error"}

\* A 2xx answer: the server has carried the request out.
Served(o) == o \in {"ok", "empty"}

EmptyMap == [x \in {} |-> x]
ErrorBody == "detail" :> "error"

\* api(base, method, path, data): the value returned to the caller, or the
\* exception that leaves the function.  `body` is the server's JSON answer
\* to a request it serves.
api(o, body) ==
  CASE o = "ok"        -> [raised |-> FALSE, ret |-> body]
    [] o = "empty"     -> [raised |-> FALSE, ret |-> EmptyMap]
    [] o = "http_json" -> [raised |-> FALSE, ret |-> ErrorBody]
    [] o = "http_text" -> [raised |-> FALSE, ret |-> EmptyMap]
    [] o = "url_error" -> [raised |-> TRUE,  ret |-> EmptyMap]

\* m.get("results", []) ; m.get("pk") ; m.get("slug")
results(m) == IF "results" \in DOMAIN m THEN m["results"] ELSE {}
get(m, k)  == IF k \in DOMAIN m THEN m[k] ELSE None

\* `if existing.get("results"):` the lookup found the object.
found(m) == results(m) # {}

\* A check that refuses the empty token only.
token_refused_empty_only(n) == n = 0

\* `if not token or len(token) < 10:` the token is refused.
token_refused(n) == n = 0 \/ n < MinTokenLen

\* A loop that looks at the identifier only, not at the bindings fetched.
bind_skipped_unfetched(stage_pk, bound_stages) == stage_pk = None

\* `if not stage_pk: continue` / `if stage_pk in bound_stages: continue`
bind_skipped(stage_pk, bound_stages) ==
  stage_pk = None \/ stage_pk \in bound_stages

\* ------------------------------------------------- the identity provider
\* ?search=term matches the objects whose text contains the term.
Contains(text, term) ==
  \E j \in 0..(Len(text) - Len(term)) : SubSeq(text, j + 1, j + Len(term)) = term

\* Identifier of the next object of a kind and name.
NewPk(kind, nm, objs) ==
  <<kind, nm, 1 + Cardinality({x \in objs : x.pk[2] = nm})>>

Pks(objs) == {x.pk : x \in objs}

\* The server lists what a query matches in an order of its own, the same
\* for every request: oldest first or newest first. Among objects created
\* under different names the shorter name counts as the older.
Rank(pk) == 10 * pk[3] + Len(pk[2])

Listed(rem, p, q) ==
  IF rem.listing = "oldest_first" THEN Rank(p) <= Rank(q) ELSE Rank(p) >= Rank(q)

\* results[0]["pk"] of a non-empty result list.
FirstPk(rem, objs) == {p \in Pks(objs) : \A q \in Pks(objs) : Listed(rem, p, q)}

\* The pk a `for p in results:` loop that overwrites is left with.
LastPk(rem, objs) == {p \in Pks(objs) : \A q \in Pks(objs) : Listed(rem, q, p)}

\* Objects the server returns for each lookup the script makes.
SearchProviders(rem, term) ==
  {p \in rem.providers : Contains(p.name, term) \/ Contains(p.client_id, term)}
ApplicationsBySlug(rem, slug) == {a \in rem.applications : a.slug = slug}
FlowsBySlug(rem, slug) == {f \in rem.flows : f.slug = slug}
SearchStages(stages, term) == {s \in stages : Contains(s.name, term)}
BindingsOfTarget(rem, flow_pk) == {b \in rem.bindings : b.target = flow_pk}

CERT_PK == <<"certificatekeypair", <<"authentik Self-signed Certificate">>, 1>>
SCOPE_PK(n) == <<"scopemapping", <<n>>, 1>>
DefaultFlow(slug, designation) ==
  [pk |-> <<"flow", slug, 1>>, slug |-> slug, designation |-> designation]

\* The store before the script has ever run: the installation's own objects
\* (each of which may be missing) and nothing of the script's.
EmptyRemote(cert, flows, listing) ==
  [ seeded            |-> FALSE,
    cert              |-> cert,
    listing           |-> listing,
    flows             |-> flows,
    providers         |-> {},
    applications      |-> {},
    ident_stages      |-> {},
    email_stages      |-> {},
    prompt_stages     |-> {},
    user_write_stages |-> {},
    prompts           |-> {},
    bindings          |-> {},
    vault             |-> [a \in AppIx |-> 0] ]

\* An email stage under the first target's derived name that the script did
\* not write: its template, subject and activation differ from the script's.
DriftedEmailStage ==
  [ pk       |-> <<"stage_email", email_name(1), 1>>,
    name     |-> email_name(1),
    template |-> "email/account_confirmation.html",
    subject  |-> "authentik",
    activate_user_on_success |-> FALSE,
    use_global_settings      |-> FALSE,
    token_expiry             |-> "minutes=60" ]

\* The store the first run finds: empty, or holding that email stage.
FirstRemote(cert, flows, listing, seeded) ==
  IF seeded
  THEN [EmptyRemote(cert, flows, listing) EXCEPT !.seeded = TRUE,
                                                !.email_stages = {DriftedEmailStage}]
  ELSE EmptyRemote(cert, flows, listing)

\* ------------------------------------------------------------------ state
VARIABLES
  remote,      \* the identity provider's objects and the vault
  run,         \* number of the current run
  pc,          \* the remote call the current run makes next, or "done"
  loc,         \* the script's variables
  exit_code,   \* the process's exit code, once pc = "done"
  uncaught,    \* where the exception that ended the run came from, or "none"
  calls,       \* the remote calls the current run has issued, in order
  failures,    \* remote calls, over all runs, that did not succeed
  pre,         \* the store as the current run found it
  prev_clean,  \* the previous run completed with every call succeeding
  other        \* a run that executes at the same time, between its calls

vars == <<remote, run, pc, loc, exit_code, uncaught, calls, failures, pre,
          prev_clean, other>>

\* Every remote call of the current run has succeeded so far.
clean == \A n \in DOMAIN calls : calls[n].o = "ok"

\* Variables of setup_recovery_flow and provision_app, before they are bound.
FreshLocals(l) ==
  [l EXCEPT !.k = 1, !.provider_pk = None, !.flow_pk = None,
            !.bound_stages = {}, !.ident_pk = None, !.email_pk = None,
            !.pw_pk = None, !.write_pk = None, !.pw_prompt_pk = None,
            !.pw_repeat_pk = None]

InitLoc ==
  [ i |-> 1, k |-> 1, token |-> 0, skip_keyvault |-> FALSE,
    cert_pk |-> None, auth_flow |-> None, invalidation_flow |-> None,
    mappings |-> {}, provisioned |-> [a \in AppIx |-> None],
    verified |-> [a \in AppIx |-> "-"],
    provider_pk |-> None, flow_pk |-> None, bound_stages |-> {},
    ident_pk |-> None, email_pk |-> None, pw_pk |-> None, write_pk |-> None,
    pw_prompt_pk |-> None, pw_repeat_pk |-> None ]

\* The first run starts against a store that holds the prerequisites or
\* lacks some of them and, if seeded, an email stage made by hand.
InitFrom(seeded) ==
  /\ \E cert \in BOOLEAN :
       \E flows \in SUBSET {DefaultFlow(AUTH_FLOW_SLUG, "authorization"),
                            DefaultFlow(INVALIDATION_FLOW_SLUG, "invalidation")} :
         \E listing \in {"oldest_first", "newest_first"} :
           remote = FirstRemote(cert, flows, listing, seeded)
  /\ run = 1
  /\ pc = "pod"
  /\ loc = InitLoc
  /\ exit_code = 0
  /\ uncaught = "none"
  /\ calls = << >>
  /\ pre = remote
  /\ prev_clean = FALSE

\* No second run: the script runs alone.
NoRun ==
  [pc |-> "none", loc |-> InitLoc, exit_code |-> 0, uncaught |-> "none",
   calls |-> << >>, overtaken |-> 0]

\* The store holds nothing of the script's when the first run starts.
Init == InitFrom(FALSE) /\ failures = 0 /\ other = NoRun

\* The store holds an email stage that was made and edited by hand.
InitDrifted == InitFrom(TRUE) /\ failures = 0 /\ other = NoRun

\* Two runs start at the same time against the same store; every remote call
\* of either succeeds (nothing is left of the MaxFailures).
InitRace ==
  InitFrom(FALSE) /\ failures = MaxFailures /\ other = [NoRun EXCEPT !.pc = "pod"]

\* ----------------------------------------------------- bookkeeping of a call
\* A call: method, resource, application index, position in stage_order, and
\* how it ended for the caller ("ok", "error": no usable answer, "raised").
Call(m, r, i, k) == [m |-> m, r |-> r, i |-> i, k |-> k]
Ended(o) ==
  IF o = "ok" THEN "ok" ELSE IF o = "url_error" THEN "raised" ELSE "error"

\* An outcome other than success spends one of the MaxFailures.
MayEnd(o) == o = "ok" \/ failures < MaxFailures

NoteAs(o, c, ended) ==
  /\ calls' = Append(calls, c @@ ("o" :> ended))
  /\ failures' = IF o = "ok" THEN failures ELSE failures + 1
  /\ UNCHANGED <<run, pre, prev_clean, other>>

Note(o, c) == NoteAs(o, c, Ended(o))

\* The script goes on to its next remote call.
Goto(npc, nloc, nremote) ==
  /\ pc' = npc
  /\ loc' = nloc
  /\ remote' = nremote
  /\ UNCHANGED <<exit_code, uncaught>>

\* sys.exit(code), or the end of main (code 0).
Exit(code, nloc, nremote) ==
  /\ pc' = "done"
  /\ exit_code' = code
  /\ loc' = nloc
  /\ remote' = nremote
  /\ UNCHANGED uncaught

\* An exception nobody catches: traceback, exit code 1.
Uncaught(by) ==
  /\ pc' = "done"
  /\ exit_code' = 1
  /\ uncaught' = by
  /\ UNCHANGED <<loc, remote>>

\* ------------------------------------------------------- ensure_api_token
\* kubectl get pods: the pod's name, or nothing.
ensure_api_token_pod ==
  /\ pc = "pod"
  /\ \E o \in {"ok", "no_pod"} :
       /\ MayEnd(o)
       /\ Note(o, Call("KUBECTL", "get_pods", 0, 0))
       /\ IF o = "no_pod"
          THEN Exit(1, loc, remote)
          ELSE Goto("exec", loc, remote)

\* kubectl exec: the last line of stdout is the token; its length decides.
\* The lengths drawn are every refused one and the shortest accepted one; an
\* output shorter than a token is a failed acquisition.
ensure_api_token_exec ==
  /\ pc = "exec"
  /\ \E n \in 0..MinTokenLen :
       LET o == IF n = MinTokenLen THEN "ok" ELSE "truncated" IN
       /\ MayEnd(o)
       /\ Note(o, Call("KUBECTL", "exec", 0, 0))
       /\ IF token_refused(n)
          THEN Exit(1, [loc EXCEPT !.token = n], remote)
          ELSE Goto("cert", [loc EXCEPT !.token = n], remote)

\* --------------------------------------------------- main, steps 2 to 4
\* 2. Get signing certificate
main_cert ==
  /\ pc = "cert"
  /\ \E o \in Outcomes :
       /\ MayEnd(o)
       /\ Note(o, Call("GET", "certificatekeypairs", 0, 0))
       /\ LET certs == api(o, "results" :>
                         (IF remote.cert THEN {[pk |-> CERT_PK]} ELSE {}))
          IN IF certs.raised THEN Uncaught("api")
             ELSE IF ~found(certs.ret) THEN Exit(1, loc, remote)
             ELSE \E pk \in FirstPk(remote, results(certs.ret)) :
                    Goto("flows", [loc EXCEPT !.cert_pk = pk], remote)

\* The pk the loop over flows["results"] leaves for a slug (None if absent).
FlowPkOf(flows, slug) ==
  IF \E f \in flows : f.slug = slug
  THEN {f.pk : f \in {g \in flows : g.slug = slug}}
  ELSE {None}

\* 3. Get flows
main_flows ==
  /\ pc = "flows"
  /\ \E o \in Outcomes :
       /\ MayEnd(o)
       /\ Note(o, Call("GET", "flows", 0, 0))
       /\ LET flows == api(o, "results" :> remote.flows)
          IN IF flows.raised THEN Uncaught("api")
             ELSE \E auth_flow \in FlowPkOf(results(flows.ret), AUTH_FLOW_SLUG) :
                  \E invalidation_flow \in
                        FlowPkOf(results(flows.ret), INVALIDATION_FLOW_SLUG) :
                    IF auth_flow = None \/ invalidation_flow = None
                    THEN Exit(1, loc, remote)
                    ELSE Goto("scopes",
                              [loc EXCEPT !.auth_flow = auth_flow,
                                          !.invalidation_flow = invalidation_flow],
                              remote)

\* A step 4 that reads the scope mappings again until it gets some.
main_scopes_retried ==
  /\ pc = "scopes"
  /\ \E o \in Outcomes :
       /\ MayEnd(o)
       /\ Note(o, Call("GET", "scope_mappings", 0, 0))
       /\ LET scopes == api(o, "results" :>
                          {[pk |-> SCOPE_PK(n), scope_name |-> n] : n \in SCOPE_NAMES})
          IN IF scopes.raised THEN Uncaught("api")
             ELSE IF ~found(scopes.ret) THEN Goto("scopes", loc, remote)
             ELSE Goto("provider_get",
                       [loc EXCEPT !.mappings = {s.pk : s \in results(scopes.ret)}],
                       remote)

\* 4. Get scope mappings
main_scopes ==
  /\ pc = "scopes"
  /\ \E o \in Outcomes :
       /\ MayEnd(o)
       /\ Note(o, Call("GET", "scope_mappings", 0, 0))
       /\ LET scopes == api(o, "results" :>
                          {[pk |-> SCOPE_PK(n), scope_name |-> n] : n \in SCOPE_NAMES})
          IN IF scopes.raised THEN Uncaught("api")
             ELSE Goto("provider_get",
                       [loc EXCEPT !.mappings = {s.pk : s \in results(scopes.ret)}],
                       remote)

\* ------------------------------------------------------------ provision_app
\* A main that sets up a target's recovery flow right after provisioning it.
AfterProvision_one_loop(l, result) ==
  [pc |-> "flow_get", loc |-> FreshLocals([l EXCEPT !.provisioned[l.i] = result])]

\* provision_app returns `result`; main's loop 5 goes to the next entry of
\* APPS, and after the last one loop 6 starts with the first.
AfterProvision(l, result) ==
  LET l1 == FreshLocals([l EXCEPT !.provisioned[l.i] = result]) IN
  IF l.i < Len(APPS)
  THEN [pc |-> "provider_get", loc |-> [l1 EXCEPT !.i = l.i + 1]]
  ELSE [pc |-> "flow_get",     loc |-> [l1 EXCEPT !.i = 1]]

\* A provision_app that looks the provider up and creates it regardless.
provision_app_get_provider_unused ==
  /\ pc = "provider_get"
  /\ \E o \in Outcomes :
       /\ MayEnd(o)
       /\ Note(o, Call("GET", "provider", loc.i, 0))
       /\ LET existing == api(o, "results" :> SearchProviders(remote, APPS[loc.i].slug))
          IN IF existing.raised THEN Uncaught("api")
             ELSE Goto("provider_post", loc, remote)

\* existing = api(GET /providers/oauth2/?search={slug})
provision_app_get_provider ==
  /\ pc = "provider_get"
  /\ \E o \in Outcomes :
       /\ MayEnd(o)
       /\ Note(o, Call("GET", "provider", loc.i, 0))
       /\ LET existing == api(o, "results" :> SearchProviders(remote, APPS[loc.i].slug))
          IN IF existing.raised THEN Uncaught("api")
             ELSE IF found(existing.ret)
             THEN \E pk \in FirstPk(remote, results(existing.ret)) :
                    Goto("application_get", [loc EXCEPT !.provider_pk = pk], remote)
             ELSE Goto("provider_post", loc, remote)

\* A provision_app without the `return None` after a failed provider create.
provision_app_post_provider_no_return ==
  /\ pc = "provider_post"
  /\ \E o \in Outcomes :
       /\ MayEnd(o)
       /\ Note(o, Call("POST", "provider", loc.i, 0))
       /\ LET new == [ pk                 |-> NewPk("provider", APPS[loc.i].client_id,
                                                    remote.providers),
                       name               |-> APPS[loc.i].name,
                       client_id          |-> APPS[loc.i].client_id,
                       authorization_flow |-> loc.auth_flow,
                       invalidation_flow  |-> loc.invalidation_flow,
                       signing_key        |-> loc.cert_pk,
                       property_mappings  |-> loc.mappings ]
              served == IF Served(o)
                        THEN [remote EXCEPT !.providers = @ \cup {new}]
                        ELSE remote
              provider == api(o, "pk" :> new.pk)
          IN IF provider.raised THEN Uncaught("api")
             ELSE Goto("application_get",
                       [loc EXCEPT !.provider_pk = get(provider.ret, "pk")], served)

\* provider = api(POST /providers/oauth2/)
provision_app_post_provider ==
  /\ pc = "provider_post"
  /\ \E o \in Outcomes :
       /\ MayEnd(o)
       /\ Note(o, Call("POST", "provider", loc.i, 0))
       /\ LET new == [ pk                 |-> NewPk("provider", APPS[loc.i].client_id,
                                                    remote.providers),
                       name               |-> APPS[loc.i].name,
                       client_id          |-> APPS[loc.i].client_id,
                       authorization_flow |-> loc.auth_flow,
                       invalidation_flow  |-> loc.invalidation_flow,
                       signing_key        |-> loc.cert_pk,
                       property_mappings  |-> loc.mappings ]
              served == IF Served(o)
                        THEN [remote EXCEPT !.providers = @ \cup {new}]
                        ELSE remote
              provider == api(o, "pk" :> new.pk)
              provider_pk == get(provider.ret, "pk")
          IN IF provider.raised THEN Uncaught("api")
             ELSE IF provider_pk = None
             THEN LET nx == AfterProvision(loc, None) IN Goto(nx.pc, nx.loc, served)
             ELSE Goto("application_get", [loc EXCEPT !.provider_pk = provider_pk],
                       served)

\* existing_app = api(GET /core/applications/?slug={slug})
provision_app_get_application ==
  /\ pc = "application_get"
  /\ \E o \in Outcomes :
       /\ MayEnd(o)
       /\ Note(o, Call("GET", "application", loc.i, 0))
       /\ LET existing_app == api(o, "results" :>
                                ApplicationsBySlug(remote, APPS[loc.i].slug))
          IN IF existing_app.raised THEN Uncaught("api")
             ELSE IF found(existing_app.ret)
             THEN LET nx == AfterProvision(loc, loc.provider_pk)
                  IN Goto(nx.pc, nx.loc, remote)
             ELSE Goto("application_post", loc, remote)

\* app_result = api(POST /core/applications/)
provision_app_post_application ==
  /\ pc = "application_post"
  /\ \E o \in Outcomes :
       /\ MayEnd(o)
       /\ Note(o, Call("POST", "application", loc.i, 0))
       /\ LET new == [ pk       |-> NewPk("application", APPS[loc.i].slug,
                                          remote.applications),
                       slug     |-> APPS[loc.i].slug,
                       provider |-> loc.provider_pk ]
              served == IF Served(o)
                        THEN [remote EXCEPT !.applications = @ \cup {new}]
                        ELSE remote
              app_result == api(o, ("pk" :> new.pk) @@ ("slug" :> new.slug))
              nx == AfterProvision(loc, IF get(app_result.ret, "slug") # None
                                        THEN loc.provider_pk ELSE None)
          IN IF app_result.raised THEN Uncaught("api")
             ELSE Goto(nx.pc, nx.loc, served)

\* ------------------------------------------------------ setup_recovery_flow
\* setup_recovery_flow returns; main's loop 6 goes to the next entry of APPS,
\* and after the last one loop 7 starts with the first.
AfterRecovery(l) ==
  LET l1 == FreshLocals(l) IN
  IF l.i < Len(APPS)
  THEN [pc |-> "flow_get", loc |-> [l1 EXCEPT !.i = l.i + 1]]
  ELSE [pc |-> "verify",   loc |-> [l1 EXCEPT !.i = 1]]

StagePks(l) == <<l.ident_pk, l.email_pk, l.pw_pk, l.write_pk>>

\* 7. The loop over stage_order from position `from`: the next position that
\* is not skipped gets a binding; if there is none the function returns.
BindFrom(l, from) ==
  LET todo == {k \in from..Len(stage_order) :
                 ~bind_skipped(StagePks(l)[k], l.bound_stages)}
  IN IF todo = {}
     THEN AfterRecovery(l)
     ELSE [pc |-> "bind",
           loc |-> [l EXCEPT !.k = CHOOSE k \in todo : \A j \in todo : k <= j]]

\* 1. flows = api(GET /flows/instances/?slug={flow_slug})
setup_recovery_flow_get_flow ==
  /\ pc = "flow_get"
  /\ \E o \in Outcomes :
       /\ MayEnd(o)
       /\ Note(o, Call("GET", "flow", loc.i, 0))
       /\ LET flows == api(o, "results" :>
                         FlowsBySlug(remote, APPS[loc.i].recovery_flow_slug))
          IN IF flows.raised THEN Uncaught("api")
             ELSE IF found(flows.ret)
             THEN \E pk \in FirstPk(remote, results(flows.ret)) :
                    Goto("bindings_get", [loc EXCEPT !.flow_pk = pk], remote)
             ELSE Goto("flow_post", loc, remote)

\* A flow create that is issued a second time.
setup_recovery_flow_post_flow_twice ==
  /\ pc = "flow_post"
  /\ \E o \in Outcomes :
       /\ MayEnd(o)
       /\ Note(o, Call("POST", "flow", loc.i, 0))
       /\ LET new == [ pk          |-> NewPk("flow", APPS[loc.i].recovery_flow_slug,
                                             remote.flows),
                       slug        |-> APPS[loc.i].recovery_flow_slug,
                       designation |-> "recovery" ]
              served == IF Served(o) THEN [remote EXCEPT !.flows = @ \cup {new}]
                        ELSE remote
              flow == api(o, "pk" :> new.pk)
              flow_pk == get(flow.ret, "pk")
          IN IF flow.raised THEN Uncaught("api")
             ELSE IF flow_pk = None
             THEN LET nx == AfterRecovery(loc) IN Goto(nx.pc, nx.loc, served)
             ELSE Goto(IF \E n \in DOMAIN calls : calls[n].m = "POST" /\ calls[n].r = "flow"
                                               /\ calls[n].i = loc.i
                       THEN "bindings_get" ELSE "flow_post",
                       [loc EXCEPT !.flow_pk = flow_pk], served)

\* flow = api(POST /flows/instances/)
setup_recovery_flow_post_flow ==
  /\ pc = "flow_post"
  /\ \E o \in Outcomes :
       /\ MayEnd(o)
       /\ Note(o, Call("POST", "flow", loc.i, 0))
       /\ LET new == [ pk          |-> NewPk("flow", APPS[loc.i].recovery_flow_slug,
                                             remote.flows),
                       slug        |-> APPS[loc.i].recovery_flow_slug,
                       designation |-> "recovery" ]
              served == IF Served(o) THEN [remote EXCEPT !.flows = @ \cup {new}]
                        ELSE remote
              flow == api(o, "pk" :> new.pk)
              flow_pk == get(flow.ret, "pk")
          IN IF flow.raised THEN Uncaught("api")
             ELSE IF flow_pk = None
             THEN LET nx == AfterRecovery(loc) IN Goto(nx.pc, nx.loc, served)
             ELSE Goto("bindings_get", [loc EXCEPT !.flow_pk = flow_pk], served)

\* 2. existing_bindings = api(GET /flows/bindings/?target={flow_pk})
setup_recovery_flow_get_bindings ==
  /\ pc = "bindings_get"
  /\ \E o \in Outcomes :
       /\ MayEnd(o)
       /\ Note(o, Call("GET", "bindings", loc.i, 0))
       /\ LET existing_bindings == api(o, "results" :>
                                     BindingsOfTarget(remote, loc.flow_pk))
          IN IF existing_bindings.raised THEN Uncaught("api")
             ELSE Goto("ident_get",
                       [loc EXCEPT !.bound_stages =
                          {b.stage : b \in results(existing_bindings.ret)}],
                       remote)

\* 3. existing = api(GET /stages/identification/?search={ident_name})
setup_recovery_flow_get_ident ==
  /\ pc = "ident_get"
  /\ \E o \in Outcomes :
       /\ MayEnd(o)
       /\ Note(o, Call("GET", "stage_identification", loc.i, 0))
       /\ LET existing == api(o, "results" :>
                            SearchStages(remote.ident_stages, ident_name(loc.i)))
          IN IF existing.raised THEN Uncaught("api")
             ELSE IF found(existing.ret)
             THEN \E pk \in FirstPk(remote, results(existing.ret)) :
                    Goto("email_get", [loc EXCEPT !.ident_pk = pk], remote)
             ELSE Goto("ident_post", loc, remote)

\* stage = api(POST /stages/identification/)
setup_recovery_flow_post_ident ==
  /\ pc = "ident_post"
  /\ \E o \in Outcomes :
       /\ MayEnd(o)
       /\ Note(o, Call("POST", "stage_identification", loc.i, 0))
       /\ LET new == [ pk   |-> NewPk("stage_identification", ident_name(loc.i),
                                      remote.ident_stages),
                       name |-> ident_name(loc.i) ]
              served == IF Served(o)
                        THEN [remote EXCEPT !.ident_stages = @ \cup {new}]
                        ELSE remote
              stage == api(o, "pk" :> new.pk)
          IN IF stage.raised THEN Uncaught("api")
             ELSE Goto("email_get",
                       [loc EXCEPT !.ident_pk = get(stage.ret, "pk")], served)

\* A step 4 that patches the email stage only when it has just created it.
setup_recovery_flow_get_email_no_patch ==
  /\ pc = "email_get"
  /\ \E o \in Outcomes :
       /\ MayEnd(o)
       /\ Note(o, Call("GET", "stage_email", loc.i, 0))
       /\ LET existing == api(o, "results" :>
                            SearchStages(remote.email_stages, email_name(loc.i)))
          IN IF existing.raised THEN Uncaught("api")
             ELSE IF found(existing.ret)
             THEN \E pk \in FirstPk(remote, results(existing.ret)) :
                    Goto("pw_get", [loc EXCEPT !.email_pk = pk], remote)
             ELSE Goto("email_post", loc, remote)

\* 4. existing = api(GET /stages/email/?search={email_name})
setup_recovery_flow_get_email ==
  /\ pc = "email_get"
  /\ \E o \in Outcomes :
       /\ MayEnd(o)
       /\ Note(o, Call("GET", "stage_email", loc.i, 0))
       /\ LET existing == api(o, "results" :>
                            SearchStages(remote.email_stages, email_name(loc.i)))
          IN IF existing.raised THEN Uncaught("api")
             ELSE IF found(existing.ret)
             THEN \E pk \in FirstPk(remote, results(existing.ret)) :
                    Goto("email_patch", [loc EXCEPT !.email_pk = pk], remote)
             ELSE Goto("email_post", loc, remote)

\* stage = api(POST /stages/email/) ; `if email_pk:` decides on the PATCH
setup_recovery_flow_post_email ==
  /\ pc = "email_post"
  /\ \E o \in Outcomes :
       /\ MayEnd(o)
       /\ Note(o, Call("POST", "stage_email", loc.i, 0))
       /\ LET new == [ pk       |-> NewPk("stage_email", email_name(loc.i),
                                          remote.email_stages),
                       name     |-> email_name(loc.i),
                       template |-> APPS[loc.i].email_template,
                       subject  |-> EMAIL_SUBJECT,
                       activate_user_on_success |-> TRUE,
                       use_global_settings      |-> TRUE,
                       token_expiry             |-> "minutes=30" ]
              served == IF Served(o)
                        THEN [remote EXCEPT !.email_stages = @ \cup {new}]
                        ELSE remote
              stage == api(o, "pk" :> new.pk)
              email_pk == get(stage.ret, "pk")
          IN IF stage.raised THEN Uncaught("api")
             ELSE Goto(IF email_pk # None THEN "email_patch" ELSE "pw_get",
                       [loc EXCEPT !.email_pk = email_pk], served)

\* The email stage after PATCH {template, subject, activate_user_on_success}.
Patched(s, template) ==
  [s EXCEPT !.template = template, !.subject = EMAIL_SUBJECT,
            !.activate_user_on_success = TRUE]

\* api(PATCH /stages/email/{email_pk}/)
setup_recovery_flow_patch_email ==
  /\ pc = "email_patch"
  /\ \E o \in Outcomes :
       /\ MayEnd(o)
       /\ Note(o, Call("PATCH", "stage_email", loc.i, 0))
       /\ LET served == IF Served(o)
                        THEN [remote EXCEPT !.email_stages =
                                {IF s.pk = loc.email_pk
                                 THEN Patched(s, APPS[loc.i].email_template)
                                 ELSE s : s \in @}]
                        ELSE remote
              patched == api(o, "pk" :> loc.email_pk)
          IN IF patched.raised THEN Uncaught("api")
             ELSE Goto("pw_get", loc, served)

\* 5. existing = api(GET /stages/prompt/stages/?search={pw_name})
setup_recovery_flow_get_password ==
  /\ pc = "pw_get"
  /\ \E o \in Outcomes :
       /\ MayEnd(o)
       /\ Note(o, Call("GET", "stage_prompt", loc.i, 0))
       /\ LET existing == api(o, "results" :>
                            SearchStages(remote.prompt_stages, pw_name(loc.i)))
          IN IF existing.raised THEN Uncaught("api")
             ELSE IF found(existing.ret)
             THEN \E pk \in FirstPk(remote, results(existing.ret)) :
                    Goto("write_get", [loc EXCEPT !.pw_pk = pk], remote)
             ELSE Goto("prompts_get", loc, remote)

\* A scan that looks only at the prompt fields named after the flow at hand.
ScanPrompts_own_flow(prompts, field_key) ==
  LET own == {p \in prompts :
                /\ p.field_key = field_key
                /\ SubSeq(p.name, 1, Len(APPS[loc.i].recovery_flow_slug))
                     = APPS[loc.i].recovery_flow_slug}
  IN IF own # {} THEN LastPk(remote, own) ELSE {None}

\* The pk the scan of prompts["results"] leaves for a field key (None if no
\* prompt has it).
ScanPrompts(prompts, field_key) ==
  IF \E p \in prompts : p.field_key = field_key
  THEN LastPk(remote, {p \in prompts : p.field_key = field_key})
  ELSE {None}

\* After `if not pw_prompt_pk:`: `if not pw_repeat_pk:` creates the second
\* field, otherwise the stage is created next.
AfterPrompt(l) ==
  IF l.pw_repeat_pk = None THEN "prompt_repeat_post" ELSE "pw_post"

\* prompts = api(GET /stages/prompt/prompts/) and the scan by field_key
setup_recovery_flow_get_prompts ==
  /\ pc = "prompts_get"
  /\ \E o \in Outcomes :
       /\ MayEnd(o)
       /\ Note(o, Call("GET", "prompts", loc.i, 0))
       /\ LET prompts == api(o, "results" :> remote.prompts)
          IN IF prompts.raised THEN Uncaught("api")
             ELSE \E pw_prompt_pk \in ScanPrompts(results(prompts.ret), "password") :
                  \E pw_repeat_pk \in
                        ScanPrompts(results(prompts.ret), "password_repeat") :
                    LET l1 == [loc EXCEPT !.pw_prompt_pk = pw_prompt_pk,
                                          !.pw_repeat_pk = pw_repeat_pk]
                    IN Goto(IF pw_prompt_pk = None THEN "prompt_password_post"
                            ELSE AfterPrompt(l1),
                            l1, remote)

NewPrompt(rem, nm, field_key) ==
  [pk |-> NewPk("prompt", nm, rem.prompts), name |-> nm, field_key |-> field_key]

\* r = api(POST /stages/prompt/prompts/) for field_key "password"
setup_recovery_flow_post_prompt_password ==
  /\ pc = "prompt_password_post"
  /\ \E o \in Outcomes :
       /\ MayEnd(o)
       /\ Note(o, Call("POST", "prompt_password", loc.i, 0))
       /\ LET new == NewPrompt(remote,
                       APPS[loc.i].recovery_flow_slug \o <<"-password-field">>,
                       "password")
              served == IF Served(o) THEN [remote EXCEPT !.prompts = @ \cup {new}]
                        ELSE remote
              r == api(o, "pk" :> new.pk)
              l1 == [loc EXCEPT !.pw_prompt_pk = get(r.ret, "pk")]
          IN IF r.raised THEN Uncaught("api")
             ELSE Goto(AfterPrompt(l1), l1, served)

\* r = api(POST /stages/prompt/prompts/) for field_key "password_repeat"
setup_recovery_flow_post_prompt_repeat ==
  /\ pc = "prompt_repeat_post"
  /\ \E o \in Outcomes :
       /\ MayEnd(o)
       /\ Note(o, Call("POST", "prompt_password_repeat", loc.i, 0))
       /\ LET new == NewPrompt(remote,
                       APPS[loc.i].recovery_flow_slug \o <<"-password-repeat-field">>,
                       "password_repeat")
              served == IF Served(o) THEN [remote EXCEPT !.prompts = @ \cup {new}]
                        ELSE remote
              r == api(o, "pk" :> new.pk)
          IN IF r.raised THEN Uncaught("api")
             ELSE Goto("pw_post", [loc EXCEPT !.pw_repeat_pk = get(r.ret, "pk")],
                       served)

\* fields = [pk for pk in [pw_prompt_pk, pw_repeat_pk] if pk]
fields(l) == {l.pw_prompt_pk, l.pw_repeat_pk} \ {None}

\* stage = api(POST /stages/prompt/stages/, {"name": pw_name, "fields": fields})
setup_recovery_flow_post_password ==
  /\ pc = "pw_post"
  /\ \E o \in Outcomes :
       /\ MayEnd(o)
       /\ Note(o, Call("POST", "stage_prompt", loc.i, 0))
       /\ LET new == [ pk     |-> NewPk("stage_prompt", pw_name(loc.i),
                                        remote.prompt_stages),
                       name   |-> pw_name(loc.i),
                       fields |-> fields(loc) ]
              served == IF Served(o)
                        THEN [remote EXCEPT !.prompt_stages = @ \cup {new}]
                        ELSE remote
              stage == api(o, "pk" :> new.pk)
          IN IF stage.raised THEN Uncaught("api")
             ELSE Goto("write_get", [loc EXCEPT !.pw_pk = get(stage.ret, "pk")],
                       served)

\* 6. existing = api(GET /stages/user_write/?search={write_name})
setup_recovery_flow_get_user_write ==
  /\ pc = "write_get"
  /\ \E o \in Outcomes :
       /\ MayEnd(o)
       /\ Note(o, Call("GET", "stage_user_write", loc.i, 0))
       /\ LET existing == api(o, "results" :>
                            SearchStages(remote.user_write_stages, write_name(loc.i)))
          IN IF existing.raised THEN Uncaught("api")
             ELSE IF found(existing.ret)
             THEN \E pk \in FirstPk(remote, results(existing.ret)) :
                    LET nx == BindFrom([loc EXCEPT !.write_pk = pk], 1)
                    IN Goto(nx.pc, nx.loc, remote)
             ELSE Goto("write_post", loc, remote)

\* stage = api(POST /stages/user_write/)
setup_recovery_flow_post_user_write ==
  /\ pc = "write_post"
  /\ \E o \in Outcomes :
       /\ MayEnd(o)
       /\ Note(o, Call("POST", "stage_user_write", loc.i, 0))
       /\ LET new == [ pk   |-> NewPk("stage_user_write", write_name(loc.i),
                                      remote.user_write_stages),
                       name |-> write_name(loc.i) ]
              served == IF Served(o)
                        THEN [remote EXCEPT !.user_write_stages = @ \cup {new}]
                        ELSE remote
              stage == api(o, "pk" :> new.pk)
              nx == BindFrom([loc EXCEPT !.write_pk = get(stage.ret, "pk")], 1)
          IN IF stage.raised THEN Uncaught("api")
             ELSE Goto(nx.pc, nx.loc, served)

\* 7. binding = api(POST /flows/bindings/, {target, stage, order})
setup_recovery_flow_bind ==
  /\ pc = "bind"
  /\ \E o \in Outcomes :
       /\ MayEnd(o)
       /\ Note(o, Call("POST", "binding", loc.i, loc.k))
       /\ LET stage_pk == StagePks(loc)[loc.k]
              new == [ pk     |-> NewPk("binding", loc.flow_pk[2] \o stage_pk[2],
                                        remote.bindings),
                       target |-> loc.flow_pk,
                       stage  |-> stage_pk,
                       order  |-> stage_order[loc.k] ]
              served == IF Served(o) THEN [remote EXCEPT !.bindings = @ \cup {new}]
                        ELSE remote
              binding == api(o, "pk" :> new.pk)
              nx == BindFrom(loc, loc.k + 1)
          IN IF binding.raised THEN Uncaught("api")
             ELSE Goto(nx.pc, nx.loc, served)

\* ------------------------------------------------------- main, steps 7 and 8
\* What the discovery read of an application ends in: the document is
\* served for an application that exists, 404 otherwise.
Discovery(o, i) ==
  IF o = "ok" /\ ApplicationsBySlug(remote, APPS[i].slug) = {} THEN "http_json" ELSE o

\* 7. urlopen(.../application/o/{slug}/.well-known/openid-configuration):
\* only HTTPError is caught; json.loads of an empty body raises.
main_verify ==
  /\ pc = "verify"
  /\ \E o \in Outcomes :
       /\ MayEnd(o)
       /\ NoteAs(o, Call("GET", "openid_configuration", loc.i, 0),
                 IF Discovery(o, loc.i) = "empty" THEN "raised"
                 ELSE Ended(Discovery(o, loc.i)))
       /\ LET d == Discovery(o, loc.i)
              l1 == [loc EXCEPT !.verified[loc.i] = IF d = "ok" THEN "OK" ELSE "FAILED"]
          IN IF d \in {"url_error", "empty"} THEN Uncaught("urlopen")
             ELSE IF loc.i < Len(APPS)
             THEN Goto("verify", [l1 EXCEPT !.i = loc.i + 1], remote)
             ELSE \* `if not args.skip_keyvault:` (the flag is read only here)
                  \E skip_keyvault \in BOOLEAN :
                    IF skip_keyvault
                    THEN Exit(0, [l1 EXCEPT !.skip_keyvault = TRUE], remote)
                    ELSE Goto("vault", [l1 EXCEPT !.i = 1], remote)

\* The command line of one vault write: --name key --value value.
SecretSet(i, key, value) ==
  Call("AZ", "keyvault_secret_set", i, 0) @@ [key |-> key, value |-> value]

\* A step 8 whose loop ends at the first write that exits non-zero.
set_keyvault_secret_stops ==
  /\ pc = "vault"
  /\ \E o \in {"ok", "nonzero"} :
       /\ MayEnd(o)
       /\ Note(o, SecretSet(loc.i, APPS[loc.i].keyvault_token_key, loc.token))
       /\ LET stored == IF o = "ok"
                        THEN [remote EXCEPT !.vault[loc.i] = loc.token]
                        ELSE remote
          IN IF loc.i < Len(APPS) /\ o = "ok"
             THEN Goto("vault", [loc EXCEPT !.i = loc.i + 1], stored)
             ELSE Exit(0, loc, stored)

\* 8. set_keyvault_secret(key, token): az keyvault secret set; a non-zero
\* return code is reported and the loop goes on; after the last entry main
\* ends.
set_keyvault_secret ==
  /\ pc = "vault"
  /\ \E o \in {"ok", "nonzero"} :
       /\ MayEnd(o)
       /\ Note(o, SecretSet(loc.i, APPS[loc.i].keyvault_token_key, loc.token))
       /\ LET stored == IF o = "ok"
                        THEN [remote EXCEPT !.vault[loc.i] = loc.token]
                        ELSE remote
          IN IF loc.i < Len(APPS)
             THEN Goto("vault", [loc EXCEPT !.i = loc.i + 1], stored)
             ELSE Exit(0, loc, stored)

\* ------------------------------------------------------------- the next run
\* The operator runs the script again.
StartRun ==
  /\ pc = "done"
  /\ run < MaxRuns
  /\ run' = run + 1
  /\ pc' = "pod"
  /\ loc' = InitLoc
  /\ exit_code' = 0
  /\ uncaught' = "none"
  /\ calls' = << >>
  /\ pre' = remote
  /\ prev_clean' = (clean /\ exit_code = 0)
  /\ UNCHANGED <<remote, failures, other>>

Next ==
  \/ ensure_api_token_pod
  \/ ensure_api_token_exec
  \/ main_cert
  \/ main_flows
  \/ main_scopes
  \/ provision_app_get_provider
  \/ provision_app_post_provider
  \/ provision_app_get_application
  \/ provision_app_post_application
  \/ setup_recovery_flow_get_flow
  \/ setup_recovery_flow_post_flow
  \/ setup_recovery_flow_get_bindings
  \/ setup_recovery_flow_get_ident
  \/ setup_recovery_flow_post_ident
  \/ setup_recovery_flow_get_email
  \/ setup_recovery_flow_post_email
  \/ setup_recovery_flow_patch_email
  \/ setup_recovery_flow_get_password
  \/ setup_recovery_flow_get_prompts
  \/ setup_recovery_flow_post_prompt_password
  \/ setup_recovery_flow_post_prompt_repeat
  \/ setup_recovery_flow_post_password
  \/ setup_recovery_flow_get_user_write
  \/ setup_recovery_flow_post_user_write
  \/ setup_recovery_flow_bind
  \/ main_verify
  \/ set_keyvault_secret
  \/ StartRun

Spec == Init /\ [][Next]_vars

\* The same runs against a store with an email stage that has drifted.
SpecDrifted == InitDrifted /\ [][Next]_vars

\* ------------------------------------------------- two runs at the same time
\* The run that takes the next step changes, and `run` tells which of the
\* two it is. The processes are interleaved at their remote calls: a run is
\* overtaken before any of its calls, at most MaxOvertakes times for the two
\* together, and hands over when it has ended.
Switch ==
  /\ other.pc \notin {"none", "done"}
  /\ pc = "done" \/ other.overtaken < MaxOvertakes
  /\ run' = 3 - run
  /\ pc' = other.pc
  /\ loc' = other.loc
  /\ exit_code' = other.exit_code
  /\ uncaught' = other.uncaught
  /\ calls' = other.calls
  /\ other' = [pc |-> pc, loc |-> loc, exit_code |-> exit_code,
               uncaught |-> uncaught, calls |-> calls,
               overtaken |-> IF pc = "done" THEN other.overtaken
                             ELSE other.overtaken + 1]
  /\ UNCHANGED <<remote, failures, pre, prev_clean>>

NextRace ==
  \/ ensure_api_token_pod
  \/ ensure_api_token_exec
  \/ main_cert
  \/ main_flows
  \/ main_scopes
  \/ provision_app_get_provider
  \/ provision_app_post_provider
  \/ provision_app_get_application
  \/ provision_app_post_application
  \/ setup_recovery_flow_get_flow
  \/ setup_recovery_flow_post_flow
  \/ setup_recovery_flow_get_bindings
  \/ setup_recovery_flow_get_ident
  \/ setup_recovery_flow_post_ident
  \/ setup_recovery_flow_get_email
  \/ setup_recovery_flow_post_email
  \/ setup_recovery_flow_patch_email
  \/ setup_recovery_flow_get_password
  \/ setup_recovery_flow_get_prompts
  \/ setup_recovery_flow_post_prompt_password
  \/ setup_recovery_flow_post_prompt_repeat
  \/ setup_recovery_flow_post_password
  \/ setup_recovery_flow_get_user_write
  \/ setup_recovery_flow_post_user_write
  \/ setup_recovery_flow_bind
  \/ main_verify
  \/ set_keyvault_secret
  \/ Switch

SpecRace == InitRace /\ [][NextRace]_vars

\* ======================================================= reading the state
STAGE_KINDS ==
  {"stage_identification", "stage_email", "stage_prompt", "stage_user_write"}

StagesOfKind(rem, r) ==
  CASE r = "stage_identification" -> rem.ident_stages
    [] r = "stage_email"          -> rem.email_stages
    [] r = "stage_prompt"         -> rem.prompt_stages
    [] r = "stage_user_write"     -> rem.user_write_stages

StageName(r, i) ==
  CASE r = "stage_identification" -> ident_name(i)
    [] r = "stage_email"          -> email_name(i)
    [] r = "stage_prompt"         -> pw_name(i)
    [] r = "stage_user_write"     -> write_name(i)

ProvidersOf(rem, i) == {p \in rem.providers : p.client_id = APPS[i].client_id}
ApplicationsOf(rem, i) == {a \in rem.applications : a.slug = APPS[i].slug}
RecoveryFlowsOf(rem, i) ==
  {f \in rem.flows : f.slug = APPS[i].recovery_flow_slug}
StagesOf(rem, r, i) == {s \in StagesOfKind(rem, r) : s.name = StageName(r, i)}
AllStagesOf(rem, i) == UNION {StagesOf(rem, r, i) : r \in STAGE_KINDS}
BindingsOf(rem, i) ==
  {b \in rem.bindings : b.target \in Pks(RecoveryFlowsOf(rem, i))}
BindingsOfPair(rem, flow_pk, stage_pk) ==
  {b \in rem.bindings : b.target = flow_pk /\ b.stage = stage_pk}

\* The objects the reconciliation is about.
Reconciled(rem) ==
  [ providers    |-> rem.providers,
    applications |-> rem.applications,
    flows        |-> {f \in rem.flows : f.designation = "recovery"},
    stages       |-> rem.ident_stages \cup rem.email_stages
                       \cup rem.prompt_stages \cup rem.user_write_stages,
    bindings     |-> rem.bindings ]

\* Positions in `calls` of the calls of a method on a resource for an
\* application.
CallsOf(m, r, i) ==
  {n \in DOMAIN calls : calls[n].m = m /\ calls[n].r = r /\ calls[n].i = i}
Issued(m, r, i) ==
  \E n \in DOMAIN calls : calls[n].m = m /\ calls[n].r = r /\ calls[n].i = i
CallsBy(m) == {n \in DOMAIN calls : calls[n].m = m}
CreatesOf(r) == {n \in DOMAIN calls : calls[n].m = "POST" /\ calls[n].r = r}

\* The run has ended the way main ends, with every remote call answered.
CleanRunDone == pc = "done" /\ exit_code = 0 /\ clean

\* The runs started from the empty store.
FromEmpty == ~remote.seeded

\* ================================================================== claims

\* C1. Idempotence: when the whole reconciliation has run with every remote
\* call succeeding and is run once more against the store it left, again with
\* every call succeeding, the second run leaves the providers, applications,
\* recovery flows, stages and bindings exactly as the first left them: it
\* adds no duplicate and changes none.
C1_Idempotent ==
  (CleanRunDone /\ prev_clean) => Reconciled(remote) = Reconciled(pre)

\* C1 witness: a second successful run in a row has ended, the pair having
\* started from what a run with a failed call left behind.
C1_Witness ==
  /\ CleanRunDone /\ prev_clean
  /\ run = MaxRuns /\ failures > 0
  /\ \A i \in AppIx : ProvidersOf(remote, i) # {} /\ BindingsOf(remote, i) # {}

\* What the store holds for one target: at most one, exactly one of each.
AtMostOnePerSlug(rem, i) ==
  /\ Cardinality(ProvidersOf(rem, i)) <= 1
  /\ Cardinality(ApplicationsOf(rem, i)) <= 1
  /\ Cardinality(RecoveryFlowsOf(rem, i)) <= 1
  /\ \A r \in STAGE_KINDS : Cardinality(StagesOf(rem, r, i)) <= 1
  /\ \A b \in BindingsOf(rem, i) :
       Cardinality(BindingsOfPair(rem, b.target, b.stage)) <= 1

ExactlyOnePerSlug(rem, i) ==
  /\ Cardinality(ProvidersOf(rem, i)) = 1
  /\ Cardinality(ApplicationsOf(rem, i)) = 1
  /\ Cardinality(RecoveryFlowsOf(rem, i)) = 1
  /\ \A r \in STAGE_KINDS : Cardinality(StagesOf(rem, r, i)) = 1
  /\ Cardinality(BindingsOf(rem, i)) = Cardinality(STAGE_KINDS)
  /\ {b.stage : b \in BindingsOf(rem, i)} = Pks(AllStagesOf(rem, i))
  /\ \A a \in ApplicationsOf(rem, i) : a.provider \in Pks(ProvidersOf(rem, i))

\* C2. Convergence, as claimed: from the empty store, whatever calls failed
\* in whichever runs, no target ever has more than one provider, application,
\* recovery flow, stage of a kind or binding of a (flow, stage) pair; and
\* after a run in which every call succeeds each target has exactly one
\* provider, application and recovery flow, four stages and four bindings,
\* its application linked to its own provider.
C2_Converges ==
  FromEmpty =>
    /\ \A i \in AppIx : AtMostOnePerSlug(remote, i)
    /\ CleanRunDone => \A i \in AppIx : ExactlyOnePerSlug(remote, i)

\* C3. Empty-state scenario: the first run against the empty store, with the
\* prerequisites present and every remote call succeeding, issues exactly
\* 2 provider, 2 application, 2 flow, 8 stage and 8 binding creates, and the
\* store then holds exactly 2 providers, 2 applications, 2 recovery flows,
\* 8 stages (one of each kind per flow) and 8 bindings (four per flow).
C3_EmptyStateCounts ==
  (FromEmpty /\ run = 1 /\ CleanRunDone) =>
    /\ Cardinality(Reconciled(remote).providers) = 2
    /\ Cardinality(Reconciled(remote).applications) = 2
    /\ Cardinality(Reconciled(remote).flows) = 2
    /\ Cardinality(Reconciled(remote).stages) = 8
    /\ Cardinality(Reconciled(remote).bindings) = 8
    /\ \A i \in AppIx : ExactlyOnePerSlug(remote, i)
    /\ Cardinality(CreatesOf("provider")) = 2
    /\ Cardinality(CreatesOf("application")) = 2
    /\ Cardinality(CreatesOf("flow")) = 2
    /\ Cardinality(UNION {CreatesOf(r) : r \in STAGE_KINDS}) = 8
    /\ Cardinality(CreatesOf("binding")) = 8

\* C3 witness: the first run has ended with every call answered.
C3_Witness ==
  FromEmpty /\ run = 1 /\ CleanRunDone /\ Reconciled(pre).providers = {}

\* A store in which both targets are fully provisioned.
FullyProvisioned(rem) ==
  \A i \in AppIx :
    /\ ProvidersOf(rem, i) # {}
    /\ ApplicationsOf(rem, i) # {}
    /\ RecoveryFlowsOf(rem, i) # {}
    /\ \A f \in RecoveryFlowsOf(rem, i) : \A r \in STAGE_KINDS :
         /\ StagesOf(rem, r, i) # {}
         /\ \A st \in StagesOf(rem, r, i) : BindingsOfPair(rem, f.pk, st.pk) # {}

\* C4. Fully-provisioned scenario: a run that finds every provider,
\* application, recovery flow, stage and binding of both targets in place,
\* and whose remote calls all succeed, issues no POST, issues exactly one
\* PATCH of the email stage per target and no other PATCH, and exits 0.
C4_NothingToCreate ==
  (pc = "done" /\ clean /\ FullyProvisioned(pre)) =>
    /\ exit_code = 0
    /\ CallsBy("POST") = {}
    /\ \A i \in AppIx : Cardinality(CallsOf("PATCH", "stage_email", i)) = 1
    /\ \A n \in CallsBy("PATCH") : calls[n].r = "stage_email"

\* C4 witness: such a run has ended.
C4_Witness ==
  /\ pc = "done" /\ clean /\ FullyProvisioned(pre)
  /\ \A i \in AppIx : Issued("PATCH", "stage_email", i)

\* What the run's calls tell about a lookup and about the email step.
Answered(m, r, i) ==
  \E n \in DOMAIN calls :
    calls[n].m = m /\ calls[n].r = r /\ calls[n].i = i /\ calls[n].o = "ok"

EmailStepOver(i) ==
  Issued("GET", "stage_email", i) /\ ~(loc.i = i /\ pc \in {"email_post", "email_patch"})

EmailStageFound(i) ==
  Answered("GET", "stage_email", i) /\ StagesOf(pre, "stage_email", i) # {}

C6_BindingsNeverRepeated ==
  /\ pc = "bind" =>
       /\ StagePks(loc)[loc.k] # None
       /\ BindingsOfPair(remote, loc.flow_pk, StagePks(loc)[loc.k]) = {}
  /\ \A b \in remote.bindings :
       Cardinality(BindingsOfPair(remote, b.target, b.stage)) <= 1

\* C7. When kubectl exec yields an empty token or one shorter than 10
\* characters the run is over with a non-zero exit code, and the only remote
\* calls it has made are the two kubectl calls: no REST request, no vault
\* write.
C7_ShortTokenStopsRun ==
  (Issued("KUBECTL", "exec", 0) /\ loc.token < MinTokenLen) =>
    /\ pc = "done"
    /\ exit_code # 0
    /\ \A n \in DOMAIN calls : calls[n].m = "KUBECTL"

\* C7 witness: a token that is not empty but too short has ended the run.
C7_Witness ==
  /\ Issued("KUBECTL", "exec", 0)
  /\ loc.token > 0 /\ loc.token < MinTokenLen
  /\ pc = "done"

\* A prerequisite the run did not obtain.
PrerequisiteMissing ==
  \/ \E n \in DOMAIN calls : calls[n].r = "get_pods" /\ calls[n].o # "ok"
  \/ Issued("KUBECTL", "exec", 0) /\ loc.token < MinTokenLen
  \/ Issued("GET", "certificatekeypairs", 0) /\ loc.cert_pk = None
  \/ Issued("GET", "flows", 0)
       /\ (loc.auth_flow = None \/ loc.invalidation_flow = None)

\* C8. Exit-code contract, as claimed: a run that has ended has exit code 1
\* exactly when a prerequisite was missing (no pod, no usable token, no
\* signing certificate obtained, a required flow not obtained) and then has
\* issued no create, patch or vault write; every other run ends with 0.
C8_ExitCodeContract ==
  pc = "done" =>
    /\ exit_code \in {0, 1}
    /\ exit_code = 1 <=> PrerequisiteMissing
    /\ exit_code = 1 =>
         \A n \in DOMAIN calls : calls[n].m \notin {"POST", "PATCH", "AZ"}

\* C9. The wrapper, as claimed: whatever a request ends in, api returns a
\* mapping to its caller; no exception leaves it.
C9_ApiAlwaysReturns == uncaught # "api"

\* A create of target t failed; nothing but its creates (and the discovery
\* read of the application that is then missing) failed in the run.
CreateFailed(r, t) ==
  \E n \in DOMAIN calls :
    calls[n].m = "POST" /\ calls[n].r = r /\ calls[n].i = t /\ calls[n].o = "error"

OnlyCreatesFailed(t) ==
  /\ CreateFailed("provider", t) \/ CreateFailed("application", t)
  /\ \A n \in DOMAIN calls :
       calls[n].o # "ok" =>
         /\ calls[n].i = t /\ calls[n].o = "error"
         /\ \/ calls[n].m = "POST" /\ calls[n].r \in {"provider", "application"}
            \/ calls[n].r = "openid_configuration"

ProvisioningOver == Issued("GET", "flow", 1)

\* C10. Failure isolation in provision_app: a target whose provider create
\* was answered without a pk gets no application create in that run; and when
\* the creates of one target (and the discovery read of the application that
\* is then missing) are the only calls of the run that failed, the
\* failed create does not end the run, the run ends with exit code 0, and by
\* the end of the provisioning loop the other target's provider and
\* application have both been looked up, its provider is resolved and its
\* application exists.
C10_ProvisionFailureIsolated ==
  \A t \in AppIx :
    /\ CreateFailed("provider", t) => ~Issued("POST", "application", t)
    /\ OnlyCreatesFailed(t) =>
         /\ (calls[Len(calls)].m = "POST" /\ calls[Len(calls)].o # "ok") => pc # "done"
         /\ pc = "done" => exit_code = 0
         /\ ProvisioningOver =>
              \A u \in AppIx \ {t} :
                /\ Issued("GET", "provider", u)
                /\ Issued("GET", "application", u)
                /\ loc.provisioned[u] # None
                /\ ApplicationsOf(remote, u) # {}

\* C10 witness: the first target's provider create failed, nothing else did,
\* and the run has ended with the second target provisioned.
C10_Witness ==
  /\ CreateFailed("provider", 1) /\ OnlyCreatesFailed(1)
  /\ pc = "done" /\ exit_code = 0
  /\ loc.provisioned[1] = None
  /\ ProvidersOf(remote, 2) # {} /\ ApplicationsOf(remote, 2) # {}
  /\ Issued("POST", "provider", 2) /\ Issued("POST", "application", 2)

\* The vault writes the run has attempted.
VaultWrites == {n \in DOMAIN calls : calls[n].m = "AZ"}

\* The run has got past step 7 with the vault step switched on.
VaultStepReached == pc = "vault" \/ VaultWrites # {}

\* C11. Secret sink: a run that got to the vault step without --skip-keyvault
\* and has ended has attempted exactly one vault write per target, whatever
\* failed before; every write attempted is under its target's own key and
\* carries the token the run acquired; a write that exits non-zero is
\* followed by the next target's write, and the run ends with exit code 0;
\* with --skip-keyvault no write is attempted.
C11_SecretSink ==
  /\ \A n \in VaultWrites :
       /\ calls[n].key = APPS[calls[n].i].keyvault_token_key
       /\ calls[n].value = loc.token
       /\ \A k \in VaultWrites : calls[k].i = calls[n].i => k = n
  /\ (VaultStepReached /\ pc # "vault") =>
       /\ pc = "done" /\ exit_code = 0
       /\ {calls[n].i : n \in VaultWrites} = AppIx
  /\ \A n \in VaultWrites :
       (calls[n].o # "ok" /\ calls[n].i < Len(APPS)) =>
         \/ pc = "vault" /\ loc.i = calls[n].i + 1 /\ n = Len(calls)
         \/ (n < Len(calls) /\ calls[n + 1].m = "AZ" /\ calls[n + 1].i = calls[n].i + 1)
  /\ loc.skip_keyvault => VaultWrites = {}

\* C11 witness: the first target's write exited non-zero, the second was
\* attempted all the same, and the run has ended with exit code 0.
C11_Witness ==
  /\ pc = "done" /\ exit_code = 0
  /\ \E n \in VaultWrites : calls[n].i = 1 /\ calls[n].o = "error"
  /\ \E n \in VaultWrites : calls[n].i = 2

\* The step of main a remote call belongs to: 1 token, 2 to 4 shared
\* prerequisites, 5 providers and applications, 6 recovery flows,
\* 7 verification, 8 vault.
Phase(c) ==
  CASE c.m = "KUBECTL" -> 1
    [] c.m = "AZ" -> 8
    [] c.r \in {"certificatekeypairs", "flows", "scope_mappings"} -> 2
    [] c.r \in {"provider", "application"} -> 5
    [] c.r = "openid_configuration" -> 7
    [] OTHER -> 6

\* The step of main the run's latest call belongs to, 0 before any call.
LatestPhase == IF calls = << >> THEN 0 ELSE Phase(calls[Len(calls)])

\* C12. Phase ordering within one run: the call the run has just issued
\* belongs to the same step of main as the call before it or to a later one
\* (in every state, hence for every pair of calls); a REST call is made only after both kubectl
\* calls have been made and a token accepted; a provider or application call
\* only after the certificate, the flows and the scope mappings have been
\* read; a recovery-flow call only after every target's provider has been
\* looked up; a discovery read only after every target's recovery flow has
\* been looked up; a vault write only after every target's discovery read.
C12_PhaseOrder ==
  /\ Len(calls) >= 2 => Phase(calls[Len(calls) - 1]) <= Phase(calls[Len(calls)])
  /\ LatestPhase >= 2 =>
       /\ Len(calls) > 2
       /\ calls[1].m = "KUBECTL" /\ calls[1].r = "get_pods"
       /\ calls[2].m = "KUBECTL" /\ calls[2].r = "exec"
       /\ loc.token >= MinTokenLen
  /\ LatestPhase = 5 =>
       \A r \in {"certificatekeypairs", "flows", "scope_mappings"} : Issued("GET", r, 0)
  /\ LatestPhase = 6 => \A i \in AppIx : Issued("GET", "provider", i)
  /\ LatestPhase = 7 => \A i \in AppIx : Issued("GET", "flow", i)
  /\ LatestPhase = 8 => \A i \in AppIx : Issued("GET", "openid_configuration", i)

\* C12 witness: a run has gone through all the steps, vault writes included.
C12_Witness ==
  /\ pc = "done" /\ Cardinality(VaultWrites) = Len(APPS)
  /\ \E n \in DOMAIN calls : calls[n].m = "POST" /\ calls[n].r = "binding"

\* The discovery reads the run has issued, and those that failed.
DiscoveryReads == {n \in DOMAIN calls : calls[n].r = "openid_configuration"}
FailedDiscoveryReads == {n \in DiscoveryReads : calls[n].o # "ok"}

\* C13. The verifier, as claimed: it issues only reads, at most one per
\* target; and a discovery read that failed, by status or by transport, does
\* not end the run: no exception leaves main, and once the run has ended
\* every target has had its one read, the vault step has run unless it was
\* switched off, and the exit code is 0.
C13_VerifierBestEffort ==
  /\ \A n \in DiscoveryReads :
       /\ calls[n].m = "GET"
       /\ \A k \in DiscoveryReads : calls[k].i = calls[n].i => k = n
  /\ FailedDiscoveryReads # {} =>
       /\ uncaught = "none"
       /\ pc = "done" =>
            /\ exit_code = 0
            /\ {calls[n].i : n \in DiscoveryReads} = AppIx
            /\ loc.skip_keyvault \/ {calls[n].i : n \in VaultWrites} = AppIx

\* The remote calls main can make in one run: two kubectl calls, three
\* prerequisite reads, and per target four provisioning calls, nineteen
\* recovery-flow calls (eight lookups, seven creates of flow, stages and
\* prompt fields, one patch, four bindings), one discovery read and one vault
\* write.
CallSites == 2 + 3 + Len(APPS) * (4 + (8 + 7 + 1 + Len(stage_order)) + 1 + 1)

SameCall(c, d) == c.m = d.m /\ c.r = d.r /\ c.i = d.i /\ c.k = d.k

OrderOfKind(kind) ==
  CASE kind = "stage_identification" -> stage_order[1]
    [] kind = "stage_email"          -> stage_order[2]
    [] kind = "stage_prompt"         -> stage_order[3]
    [] kind = "stage_user_write"     -> stage_order[4]

\* C15. Binding order, as claimed, for runs from the empty store: every
\* binding in the store carries the
\* order of its stage's kind (0, 10, 20, 30); no two bindings of one flow
\* share an order value; and within a flow the orders sort the stages as
\* identification < email < password < user-write.
C15_BindingOrder ==
  FromEmpty =>
    /\ \A b \in remote.bindings : b.order = OrderOfKind(b.stage[1])
    /\ \A b, c \in remote.bindings :
         (b.target = c.target /\ b.order = c.order) => b = c
    /\ \A b, c \in remote.bindings :
         (b.target = c.target /\ OrderOfKind(b.stage[1]) < OrderOfKind(c.stage[1]))
           => b.order < c.order

\* The prompt field with this pk is in the store and has this field key.
IsPromptField(pk, field_key) ==
  \E p \in remote.prompts : p.pk = pk /\ p.field_key = field_key

\* C16. Password stage, as claimed: when setup_recovery_flow is about to
\* issue the create call of a password prompt stage, the fields it sends are
\* two prompt-field identifiers, one of a field with key password and one of
\* a field with key password_repeat.
C16_PasswordStageHasBothFields ==
  pc = "pw_post" =>
    /\ IsPromptField(loc.pw_prompt_pk, "password")
    /\ IsPromptField(loc.pw_repeat_pk, "password_repeat")
    /\ fields(loc) = {loc.pw_prompt_pk, loc.pw_repeat_pk}
    /\ Cardinality(fields(loc)) = 2

\* provision_app returned None for target t: one of its creates failed.
ProvisioningFailed(t) == CreateFailed("provider", t) \/ CreateFailed("application", t)

\* The creates of flow, stages, prompt fields and bindings the run has issued
\* for target t.
RecoveryCreates(t) ==
  {n \in DOMAIN calls :
     calls[n].m = "POST" /\ calls[n].i = t /\ calls[n].r \notin {"provider", "application"}}

\* C17. Skipping, as claimed: a target whose provider or application create
\* failed in the run gets no recovery-flow, stage, prompt-field or binding
\* create in that run; and when nothing else failed and the run has ended,
\* the other target has its provider, application, recovery flow, four stages
\* and four bindings.
C17_FailedTargetSkipped ==
  \A t \in AppIx :
    /\ ProvisioningFailed(t) => RecoveryCreates(t) = {}
    /\ (OnlyCreatesFailed(t) /\ pc = "done") =>
         \A u \in AppIx \ {t} :
           /\ ProvidersOf(remote, u) # {} /\ ApplicationsOf(remote, u) # {}
           /\ RecoveryFlowsOf(remote, u) # {}
           /\ \A r \in STAGE_KINDS : StagesOf(remote, r, u) # {}
           /\ Cardinality(BindingsOf(remote, u)) >= Cardinality(STAGE_KINDS)

\* The collections of the store no call of the script may alter.
FRAME ==
  {"providers", "applications", "flows", "ident_stages", "prompt_stages",
   "user_write_stages", "prompts", "bindings"}

\* Email stage t is email stage s with at most its template, subject and
\* activation changed.
SameButPatched(s, t) ==
  [t EXCEPT !.template = s.template, !.subject = s.subject,
            !.activate_user_on_success = s.activate_user_on_success] = s

\* The create the script is about to issue is for a name the store lacks.
CreatesOnlyMissing ==
  /\ pc = "provider_post" => ProvidersOf(remote, loc.i) = {}
  /\ pc = "application_post" => ApplicationsOf(remote, loc.i) = {}
  /\ pc = "flow_post" => RecoveryFlowsOf(remote, loc.i) = {}
  /\ pc = "ident_post" => StagesOf(remote, "stage_identification", loc.i) = {}
  /\ pc = "email_post" => StagesOf(remote, "stage_email", loc.i) = {}
  /\ pc = "pw_post" => StagesOf(remote, "stage_prompt", loc.i) = {}
  /\ pc = "write_post" => StagesOf(remote, "stage_user_write", loc.i) = {}
  /\ pc = "bind" =>
       BindingsOfPair(remote, loc.flow_pk, StagePks(loc)[loc.k]) = {}

\* No delete, and nothing the run found has changed, but for an email stage
\* in template, subject and activation: then it carries a target's derived
\* name and the run patched that target's email stage.
FrameKept ==
  /\ \A n \in DOMAIN calls :
       /\ calls[n].m \in {"KUBECTL", "GET", "POST", "PATCH", "AZ"}
       /\ calls[n].m = "PATCH" => calls[n].r = "stage_email"
  /\ \A c \in FRAME : pre[c] \subseteq remote[c]
  /\ \A s \in pre.email_stages :
       /\ \E t \in remote.email_stages : SameButPatched(s, t)
       /\ s \notin remote.email_stages =>
            \E i \in AppIx : s.name = email_name(i) /\ Issued("PATCH", "stage_email", i)

\* C18. Frame, as claimed: the script creates only what is missing (every
\* create it is about to issue is for a provider, application, flow, stage or
\* binding the store lacks), issues no delete, and leaves every attribute of
\* every object it found as it was, a provider found by search included,
\* except the template, subject and activation of a target's email stage.
C18_OnlyEmailStagePatched == CreatesOnlyMissing /\ FrameKept

\* A run that found providers and a drifted email stage in the store has
\* ended, having reused the provider it looked up and changed the email stage.
FrameExercised ==
  /\ pc = "done"
  /\ pre.providers # {} /\ Answered("GET", "provider", 1)
  /\ ~Issued("POST", "provider", 1)
  /\ \E s \in pre.email_stages : s \notin remote.email_stages

\* The step of setup_recovery_flow a call belongs to: 1 identification,
\* 2 email, 3 password (prompt fields included), 4 user-write, 5 binding
\* create; 0 for the flow and the listing of its bindings.
RStep(c) ==
  CASE c.r = "stage_identification" -> 1
    [] c.r = "stage_email" -> 2
    [] c.r \in {"stage_prompt", "prompts", "prompt_password",
                "prompt_password_repeat"} -> 3
    [] c.r = "stage_user_write" -> 4
    [] c.r = "binding" -> 5
    [] OTHER -> 0

StageOfStep ==
  <<"stage_identification", "stage_email", "stage_prompt", "stage_user_write">>

RecoveryPcs ==
  {"flow_post", "bindings_get", "ident_get", "ident_post", "email_get",
   "email_post", "email_patch", "pw_get", "prompts_get",
   "prompt_password_post", "prompt_repeat_post", "pw_post", "write_get",
   "write_post", "bind"}

\* setup_recovery_flow has been called for target i and is no longer running.
RecoveryOver(i) ==
  Issued("GET", "flow", i) /\ ~(loc.i = i /\ pc \in RecoveryPcs)

\* No call of setup_recovery_flow for target i, other than call n, ended in
\* an exception.
NoOtherRaised(i, n) ==
  \A k \in DOMAIN calls :
    (k # n /\ calls[k].i = i /\ Phase(calls[k]) = 6) => calls[k].o # "raised"

\* The lookup of stage kind q for target i gave an identifier, or its create did.
Resolved(q, i) ==
  \/ Answered("GET", q, i) /\ StagesOf(pre, q, i) # {}
  \/ Answered("POST", q, i)

\* A stage of kind StageOfStep[k] of target i is bound to the target's flow,
\* or the run has issued the create of that binding.
BoundOrTried(k, i) ==
  \/ \E b \in BindingsOf(remote, i) :
       b.stage \in Pks(StagesOf(remote, StageOfStep[k], i))
  \/ \E n \in DOMAIN calls :
       calls[n].m = "POST" /\ calls[n].r = "binding" /\ calls[n].i = i /\ calls[n].k = k

\* The steps of setup_recovery_flow, with the call endings in F counted as
\* the failure of a create.
RecoverySteps(F) ==
  /\ \A n \in DOMAIN calls :
       (calls[n].m = "POST" /\ calls[n].r = "flow" /\ calls[n].o \in F) =>
         /\ RecoveryOver(calls[n].i)
         /\ n = Len(calls) => pc # "done"
         /\ \A k \in DOMAIN calls :
              (calls[k].i = calls[n].i /\ Phase(calls[k]) = 6) => calls[k].r = "flow"
  /\ Len(calls) >= 2 =>
       LET c == calls[Len(calls)]
           b == calls[Len(calls) - 1]
       IN (Phase(c) = 6 /\ Phase(b) = 6 /\ b.i = c.i) => RStep(b) <= RStep(c)
  /\ calls # << >> =>
       LET c == calls[Len(calls)]
       IN (Phase(c) = 6 /\ RStep(c) >= 2) =>
            Issued("GET", StageOfStep[RStep(c) - 1], c.i)
  /\ \A i \in AppIx :
       (Issued("GET", "bindings", i) /\ RecoveryOver(i) /\ NoOtherRaised(i, 0)) =>
         \A k \in DOMAIN StageOfStep : Issued("GET", StageOfStep[k], i)
  /\ \A n \in DOMAIN calls :
       (/\ calls[n].m = "POST" /\ calls[n].r \in STAGE_KINDS /\ calls[n].o \in F
        /\ RecoveryOver(calls[n].i) /\ NoOtherRaised(calls[n].i, n)) =>
         /\ \A k \in (RStep(calls[n]) + 1)..Len(StageOfStep) :
              /\ Issued("GET", StageOfStep[k], calls[n].i)
              /\ \/ StagesOf(remote, StageOfStep[k], calls[n].i) # {}
                 \/ Issued("POST", StageOfStep[k], calls[n].i)
         /\ \A k \in DOMAIN StageOfStep :
              Resolved(StageOfStep[k], calls[n].i) => BoundOrTried(k, calls[n].i)

\* The same with a create answered without a pk as the only failure.
RecoveryStepsAnswered == RecoverySteps({"error"})

\* C20. Steps of setup_recovery_flow, as claimed: a flow create that fails
\* makes the function return with no stage, prompt-field or binding call
\* issued for that flow; otherwise the identification, email, password and
\* user-write steps are attempted in that order, all four before any binding
\* create; and after a stage create that fails the later stages are still
\* looked up and created when absent, and every stage that was resolved is
\* bound. A create fails when it is answered without a pk or when the request
\* fails in transport.
C20_RecoverySteps == RecoverySteps({"error", "raised"})

\* A stage create was answered without a pk, the function has returned, the
\* later stages exist and the resolved stages are bound.
RecoveryStepsExercised ==
  \E n \in DOMAIN calls :
    /\ calls[n].m = "POST" /\ calls[n].r = "stage_email" /\ calls[n].o = "error"
    /\ RecoveryOver(calls[n].i) /\ uncaught = "none"
    /\ Answered("POST", "stage_user_write", calls[n].i)
    /\ Cardinality(BindingsOf(remote, calls[n].i)) = 3

\* The kinds of resource that carry a name of their own, and the lookup that
\* precedes the create of each.
NAMED == {"provider", "application", "flow"} \cup STAGE_KINDS \cup {"binding"}
LookupOf(r) == IF r = "binding" THEN "bindings" ELSE r

\* The objects in the store that carry the name of target i's resource r.
Named(r, i) ==
  CASE r = "provider" -> ProvidersOf(remote, i)
    [] r = "application" -> ApplicationsOf(remote, i)
    [] r = "flow" -> RecoveryFlowsOf(remote, i)
    [] OTHER -> StagesOf(remote, r, i)

\* The run whose calls are cs has issued the create of resource r of target
\* i (for a binding: at position k of stage_order), and the lookup that
\* precedes it was answered.
Created(cs, r, i, k) ==
  /\ \E n \in DOMAIN cs :
       cs[n].m = "GET" /\ cs[n].r = LookupOf(r) /\ cs[n].i = i /\ cs[n].o = "ok"
  /\ \E n \in DOMAIN cs :
       cs[n].m = "POST" /\ cs[n].r = r /\ cs[n].i = i /\ cs[n].k = k

\* The create the run has just issued is its first for that named resource.
LatestCreateIsFirst ==
  (calls # << >> /\ calls[Len(calls)].m = "POST") =>
    \A n \in 1..(Len(calls) - 1) :
      ~(/\ calls[n].m = "POST" /\ calls[n].r = calls[Len(calls)].r
        /\ calls[n].i = calls[Len(calls)].i /\ calls[n].k = calls[Len(calls)].k)

\* C19. Two runs at the same time: each run on its own issues at most one
\* create per named resource (provider, application, flow, stage, prompt
\* field, binding), whatever the other does in between (the create a run has
\* just issued is its first for that resource, in every state); and when
\* both runs have issued the create of the same provider, application, flow
\* or stage, the store holds two objects with that name.
C19_RunsRace ==
  /\ LatestCreateIsFirst
  /\ \A r \in NAMED \ {"binding"} : \A i \in AppIx :
       (Created(calls, r, i, 0) /\ Created(other.calls, r, i, 0)) =>
         Cardinality(Named(r, i)) >= 2

\* C19 witness: both runs looked up the same provider, flow, stage or binding,
\* both were answered, both found nothing and both have issued its create.
C19_Witness ==
  \E r \in NAMED : \E i \in AppIx :
    \E k \in IF r = "binding" THEN DOMAIN stage_order ELSE {0} :
      /\ Created(calls, r, i, k) /\ Created(other.calls, r, i, k)
      /\ r # "binding" => Cardinality(Named(r, i)) = 2

\* The prompt fields of the store with a field key.
PromptsWithKey(field_key) == {p \in remote.prompts : p.field_key = field_key}

\* C21. Prompt fields are shared: when the runs started from the empty store,
\* no call of any run has failed and the run at hand has ended with exit code
\* 0, the store holds exactly one prompt field with key password and exactly
\* one with key password_repeat; both carry the name derived from the first
\* target's flow, and no run at hand has created a prompt field for another
\* target; and each target has exactly one password stage, whose fields are
\* these two.
C21_PromptFieldsShared ==
  (FromEmpty /\ failures = 0 /\ CleanRunDone) =>
    /\ Cardinality(PromptsWithKey("password")) = 1
    /\ Cardinality(PromptsWithKey("password_repeat")) = 1
    /\ \A p \in PromptsWithKey("password") :
         p.name = APPS[1].recovery_flow_slug \o <<"-password-field">>
    /\ \A p \in PromptsWithKey("password_repeat") :
         p.name = APPS[1].recovery_flow_slug \o <<"-password-repeat-field">>
    /\ \A n \in DOMAIN calls :
         calls[n].r \in {"prompt_password", "prompt_password_repeat"} =>
           calls[n].i = 1
    /\ \A i \in AppIx :
         /\ Cardinality(StagesOf(remote, "stage_prompt", i)) = 1
         /\ \A s \in StagesOf(remote, "stage_prompt", i) :
              s.fields = Pks(PromptsWithKey("password")
                             \cup PromptsWithKey("password_repeat"))

\* C21 witness: a second successful run has ended; the second target's
\* password stage exists and holds a prompt field named after the first
\* target's flow.
C21_Witness ==
  /\ FromEmpty /\ failures = 0 /\ CleanRunDone /\ run = 2
  /\ \E s \in StagesOf(remote, "stage_prompt", 2) :
       \E p \in remote.prompts :
         /\ p.pk \in s.fields
         /\ p.name = APPS[1].recovery_flow_slug \o <<"-password-field">>
====
